---- MODULE Spec2Model ----
(***************************************************************************)
(* target-parquet: a Singer target that reads line-delimited messages      *)
(* (SCHEMA / RECORD / STATE), validates and flattens the records, hands    *)
(* them over a queue to a consumer that buffers them per stream and writes *)
(* parquet part files.                                                     *)
(*                                                                         *)
(* Three specifications share this module:                                 *)
(*   Spec         the whole run: main -> persist_messages (producer, then  *)
(*                consumer and write_file) -> emit_state;                  *)
(*   SpecFlatten  helpers.flatten / helpers.flatten_schema / the validator *)
(*                applied to bounded sets of schemas and records;          *)
(*   SpecWrite    write_file / create_dataframe applied to bounded batches.*)
(***************************************************************************)
EXTENDS Integers, Sequences, FiniteSets, TLC

VARIABLES
    \* ---- main / persist_messages (src/target_parquet/__init__.py)
    pc,                   \* position of main: "producer", "consumer", "emit_state", "exited"
    exc,                  \* the exception that ended the run, or "none"
    file_size,            \* config file_size (int(config.get("file_size", -1)))
    input,                \* the lines read from standard input so far
    state,                \* producer: the checkpoint candidate
    schemas,              \* persist_messages: stream -> flattened schema
    validators,           \* persist_messages: stream -> schema bound to a validator
    key_properties,       \* persist_messages: stream -> key properties
    q,                    \* the Queue between producer and consumer
    current_stream_name,  \* consumer
    records,              \* consumer: stream -> buffered rows
    consumer_schemas,     \* consumer: its local schemas map
    files_created,        \* consumer: the file paths write_file returned
    written,              \* the write_file calls made: batch, shuffle and part files
    stdout,               \* the lines written to standard output
    \* ---- the harnesses of the pure functions
    fl,                   \* SpecFlatten: inputs and results of flatten / flatten_schema
    wf                    \* SpecWrite: input and result of write_file

vars == << pc, exc, file_size, input, state, schemas, validators, key_properties, q,
           current_stream_name, records, consumer_schemas, files_created, written,
           stdout, fl, wf >>

pipeline_vars == << pc, exc, file_size, input, state, schemas, validators,
                    key_properties, q, current_stream_name, records,
                    consumer_schemas, files_created, written, stdout >>

\* Python's None as a stream name; as a value it is VNull, what JSON's null parses to.
None == "None"

(***************************************************************************)
(* JSON values as the parser returns them.  A mapping is the sequence of   *)
(* its (key, value) pairs in insertion order, which is the order Python    *)
(* iterates a dict in.                                                     *)
(***************************************************************************)
VInt(n) == [t |-> "int", i |-> n]
VStr(s) == [t |-> "str", s |-> s]
VNull == [t |-> "null"]
VList(l) == [t |-> "list", l |-> l]
VMap(m) == [t |-> "map", m |-> m]
Pair(k, v) == [k |-> k, v |-> v]

KeysOf(items) == {items[i].k : i \in DOMAIN items}

\* dict(items): a later pair overwrites the value of an earlier pair with the
\* same key, which keeps its place.
RECURSIVE dict(_)
dict(items) ==
    IF items = <<>> THEN <<>>
    ELSE LET front == dict(SubSeq(items, 1, Len(items) - 1))
             last == items[Len(items)]
         IN IF \E i \in DOMAIN front : front[i].k = last.k
            THEN [i \in DOMAIN front |-> IF front[i].k = last.k THEN last ELSE front[i]]
            ELSE Append(front, last)

\* d.get(k, None) on a mapping held as pairs with distinct keys.
DictGet(d, k) ==
    IF \E i \in DOMAIN d : d[i].k = k
    THEN (CHOOSE p \in {d[i] : i \in DOMAIN d} : p.k = k).v
    ELSE VNull

(***************************************************************************)
(* The text of a value: json.dumps, and str() of a list, which writes its  *)
(* elements as repr() does.  Values are scalars and lists of them.         *)
(***************************************************************************)
Digit(d) ==
    CASE d = 0 -> "0" [] d = 1 -> "1" [] d = 2 -> "2" [] d = 3 -> "3" [] d = 4 -> "4"
      [] d = 5 -> "5" [] d = 6 -> "6" [] d = 7 -> "7" [] d = 8 -> "8" [] d = 9 -> "9"

RECURSIVE IntText(_)
IntText(n) == IF n < 10 THEN Digit(n) ELSE IntText(n \div 10) \o Digit(n % 10)

RECURSIVE json_dumps(_)
json_dumps(v) ==
    LET RECURSIVE join(_)
        join(l) == IF l = << >> THEN ""
                   ELSE IF Len(l) = 1 THEN json_dumps(l[1])
                   ELSE json_dumps(l[1]) \o ", " \o join(Tail(l))
    IN CASE v.t = "int" -> IntText(v.i)
         [] v.t = "str" -> "\"" \o v.s \o "\""
         [] v.t = "null" -> "null"
         [] v.t = "list" -> "[" \o join(v.l) \o "]"

RECURSIVE py_str(_)
py_str(v) ==
    LET RECURSIVE join(_)
        join(l) == IF l = << >> THEN ""
                   ELSE IF Len(l) = 1 THEN py_str(l[1])
                   ELSE py_str(l[1]) \o ", " \o join(Tail(l))
    IN CASE v.t = "int" -> IntText(v.i)
         [] v.t = "str" -> "'" \o v.s \o "'"
         [] v.t = "null" -> "None"
         [] v.t = "list" -> "[" \o join(v.l) \o "]"

(***************************************************************************)
(* helpers.py                                                              *)
(***************************************************************************)
\* The default separators of flatten and flatten_schema.
flatten_sep_underscore == "_"
flatten_sep == "__"
flatten_schema_sep == "__"

\* new_key = parent_key + sep + k if parent_key else k
new_key(parent_key, sep, k) == IF parent_key # "" THEN parent_key \o sep \o k ELSE k

\* helpers.py never imports json, so evaluating json.dumps raises NameError.
helpers_imports == {"MutableMapping", "singer", "os"}

\* The leaf of flatten: json.dumps(v) if type(v) is list else v.
flatten_leaf(v) ==
    IF v.t = "list"
    THEN IF "json" \in helpers_imports
         THEN [ok |-> TRUE, v |-> VStr(json_dumps(v))]
         ELSE [ok |-> FALSE, v |-> VNull]
    ELSE [ok |-> TRUE, v |-> v]

\* flatten(dictionary, parent_key, sep): [ok, d]; ok = FALSE when NameError is raised.
RECURSIVE flatten(_, _, _)
flatten(dictionary, parent_key, sep) ==
    LET step(acc, p) ==
            LET nk == new_key(parent_key, sep, p.k)
            IN IF ~acc.ok THEN acc
               ELSE IF p.v.t = "map"
               THEN LET sub == flatten(p.v.m, nk, sep)
                    IN IF sub.ok
                       THEN [ok |-> TRUE, items |-> acc.items \o sub.d]
                       ELSE [ok |-> FALSE, items |-> <<>>]
               ELSE LET leaf == flatten_leaf(p.v)
                    IN IF leaf.ok
                       THEN [ok |-> TRUE, items |-> Append(acc.items, Pair(nk, leaf.v))]
                       ELSE [ok |-> FALSE, items |-> <<>>]
        RECURSIVE loop(_, _)
        loop(acc, rest) ==
            IF rest = <<>> THEN acc ELSE loop(step(acc, Head(rest)), Tail(rest))
        res == loop([ok |-> TRUE, items |-> <<>>], dictionary)
    IN [ok |-> res.ok, d |-> dict(res.items)]

\* A schema node: {"type": [...], "properties": {...}}, either key possibly absent.
Node(type) == [hasType |-> TRUE, type |-> type, hasProps |-> FALSE, props |-> <<>>]
NodeNoType == [hasType |-> FALSE, type |-> {}, hasProps |-> FALSE, props |-> <<>>]
NodeObj(type, props) == [hasType |-> TRUE, type |-> type, hasProps |-> TRUE, props |-> props]

\* flatten_schema(dictionary, parent_key, sep): [ok, items]; ok = FALSE when
\* v.get("properties") is None and None.items() raises AttributeError.
RECURSIVE flatten_schema(_, _, _)
flatten_schema(dictionary, parent_key, sep) ==
    LET step(acc, p) ==
            LET nk == new_key(parent_key, sep, p.k)
            IN IF ~acc.ok THEN acc
               ELSE IF "object" \in p.v.type
               THEN IF ~p.v.hasProps THEN [ok |-> FALSE, items |-> <<>>]
                    ELSE LET sub == flatten_schema(p.v.props, nk, sep)
                         IN IF sub.ok
                            THEN [ok |-> TRUE, items |-> acc.items \o sub.items]
                            ELSE [ok |-> FALSE, items |-> <<>>]
               ELSE [ok |-> TRUE, items |-> Append(acc.items, nk)]
        RECURSIVE loop(_, _)
        loop(acc, rest) ==
            IF rest = <<>> THEN acc ELSE loop(step(acc, Head(rest)), Tail(rest))
    IN loop([ok |-> TRUE, items |-> <<>>], dictionary)

(***************************************************************************)
(* Draft4Validator(schema).validate(instance), for the keywords "type" and *)
(* "properties": properties the schema does not declare are accepted.      *)
(***************************************************************************)
JsonTypes(v) ==
    CASE v.t = "int" -> {"integer", "number"}
      [] v.t = "str" -> {"string"}
      [] v.t = "null" -> {"null"}
      [] v.t = "list" -> {"array"}
      [] v.t = "map" -> {"object"}

RECURSIVE validate(_, _)
validate(schema, instance) ==
    /\ schema.hasType => JsonTypes(instance) \cap schema.type # {}
    /\ (schema.hasProps /\ instance.t = "map") =>
          \A i \in DOMAIN schema.props : \A j \in DOMAIN instance.m :
              instance.m[j].k = schema.props[i].k =>
                  validate(schema.props[i].v, instance.m[j].v)

(***************************************************************************)
(* Bounds of the model and the inputs drawn for a run.                     *)
(***************************************************************************)
\* The longest input, in lines.
MaxLines == 5

Streams == {"A", "B"}

\* The values of config file_size a run is started with (-1 is the default).
FileSizes == {-1, 1, 2}

\* MessageType
MessageType_RECORD == "MessageType.RECORD"
MessageType_SCHEMA == "MessageType.SCHEMA"
MessageType_EOF == "MessageType.EOF"

\* Object that signals shutdown
break_object == "_break_object"

TInt == {"null", "integer"}
TStr == {"null", "string"}
TArr == {"null", "array"}
TObj == {"null", "object"}

\* The schemas a SCHEMA line carries (message["schema"]), with its key_properties.
SchemaOne ==
    [schema |-> NodeObj({"object"},
                        << Pair("a", Node(TInt)),
                           Pair("b", NodeObj(TObj, << Pair("c", Node(TInt)) >>)),
                           Pair("tags", Node(TArr)) >>),
     key_properties |-> << "a" >>]
SchemaTwo ==
    [schema |-> NodeObj({"object"}, << Pair("a", Node(TStr)) >>),
     key_properties |-> << >>]
\* An object-typed property without "properties".
SchemaBroken ==
    [schema |-> NodeObj({"object"},
                        << Pair("a", Node(TInt)),
                           Pair("b", [hasType |-> TRUE, type |-> TObj,
                                      hasProps |-> FALSE, props |-> <<>>]) >>),
     key_properties |-> << "a" >>]

\* The SCHEMA lines an input may hold: stream A may get each schema, stream B the first.
SchemaLine(s, c) ==
    [type |-> "SCHEMA", stream |-> s, schema |-> c.schema,
     key_properties |-> c.key_properties]
SchemaLines ==
    {SchemaLine("A", SchemaOne), SchemaLine("A", SchemaTwo), SchemaLine("A", SchemaBroken),
     SchemaLine("B", SchemaOne)}

\* The records a RECORD line carries (message["record"]); n is the line's number,
\* so every record of a run is a different one.
RecordNested(n) == << Pair("a", VInt(n)), Pair("b", VMap(<< Pair("c", VInt(n)) >>)) >>
RecordText(n) == << Pair("a", VStr("x")) >>
RecordWithList(n) ==
    << Pair("a", VInt(n)), Pair("tags", VList(<< VStr("10"), VStr("11") >>)) >>
RecordChoices(n) == {RecordNested(n), RecordText(n), RecordWithList(n)}

\* The lines standard input may deliver as line number n.  A STATE line carries its
\* line number as the checkpoint.  "BAD" is a line that is not JSON;
\* ACTIVATE_VERSION is a message the parser knows and the target does not; "FOO"
\* is a type the parser does not know either.
Lines(n) ==
    {[type |-> "RECORD", stream |-> s, record |-> r] : s \in Streams, r \in RecordChoices(n)}
    \cup SchemaLines
    \cup {[type |-> "STATE", value |-> VInt(n)]}
    \cup {[type |-> "ACTIVATE_VERSION"], [type |-> "BAD"], [type |-> "FOO"]}

(***************************************************************************)
(* persist_messages: the queue and the producer                            *)
(***************************************************************************)
\* q = Queue(): a multiprocessing.Queue with maxsize left at its default 0, for
\* which the queue takes the largest value of a semaphore as its capacity.
queue_maxsize == 0
SEM_VALUE_MAX == 2147483647
queue_capacity == IF queue_maxsize <= 0 THEN SEM_VALUE_MAX ELSE queue_maxsize

\* put blocks while the queue holds as many messages as its capacity.
queue_full(queue) == Len(queue) >= queue_capacity

\* put appends the message; the queue never drops one.
queue_put_lossy(queue, m) == IF Len(queue) >= 2 THEN queue ELSE Append(queue, m)
queue_put(queue, m) == Append(queue, m)

\* A message on the queue: (message_type, stream_name, record), the record a
\* flattened row (a mapping), a schema's keys (a list of strings) or None.
StrList(items) == VList([i \in DOMAIN items |-> VStr(items[i])])
Msg(message_type, stream_name, record) ==
    [message_type |-> message_type, stream_name |-> stream_name, record |-> record]
NoEOFMsg == Msg(MessageType_SCHEMA, break_object, VNull)
EOFMsg == Msg(MessageType_EOF, break_object, VNull)

\* d[stream] = value on a dict keyed by stream name.
assigned_alone(d, stream, value) == [s \in {stream} |-> value]
assigned_first(d, stream, value) ==
    [s \in DOMAIN d \cup {stream} |-> IF s \in DOMAIN d THEN d[s] ELSE value]
assigned(d, stream, value) ==
    [s \in DOMAIN d \cup {stream} |-> IF s = stream THEN value ELSE d[s]]

\* if message["stream"] not in schemas
has_schema_always(stream) == TRUE
has_schema(stream) == stream \in DOMAIN schemas

\* state = None, after a record was put on the queue
state_after_record_kept(old) == old
state_after_record(old) == VNull

\* Where main stands after the producer raised: "raise Err" leaves
\* persist_messages and main, and the process exits.
after_producer_raise_swallowed == "consumer"
after_producer_raise == "exited"

\* except Exception as Err: w_queue.put(EOF); raise Err
ProducerRaise(line, kind) ==
    /\ input' = Append(input, line)
    /\ q' = queue_put(q, EOFMsg)
    /\ exc' = kind
    /\ pc' = after_producer_raise
    /\ UNCHANGED << file_size, state, schemas, validators, key_properties,
                    current_stream_name, records, consumer_schemas, files_created,
                    written, stdout, fl, wf >>

\* A line that is not JSON: JSONDecodeError, raised again as Exception("Unable to parse").
ProducerBadLine ==
    /\ pc = "producer" /\ Len(input) < MaxLines
    /\ ~queue_full(q)
    /\ \E line \in Lines(Len(input) + 1) :
          /\ line.type = "BAD"
          /\ ProducerRaise(line, "Exception: Unable to parse")

\* singer.parse_message returns a message for these types and None for any
\* other type.
parser_types == {"RECORD", "SCHEMA", "STATE", "ACTIVATE_VERSION"}

\* A JSON line of a type the parser does not know: parse_message returns None and
\* None.asdict() raises AttributeError, before message["type"] is looked at.
ProducerNoMessage ==
    /\ pc = "producer" /\ Len(input) < MaxLines
    /\ ~queue_full(q)
    /\ \E line \in Lines(Len(input) + 1) :
          /\ line.type # "BAD" /\ line.type \notin parser_types
          /\ ProducerRaise(line, "AttributeError: NoneType.asdict")

\* message_type == "RECORD"
ProducerRecord ==
    /\ pc = "producer" /\ Len(input) < MaxLines
    /\ ~queue_full(q)
    /\ \E line \in Lines(Len(input) + 1) :
          /\ line.type = "RECORD"
          /\ IF ~has_schema(line.stream)
             THEN ProducerRaise(line, "ValueError: record before schema")
             ELSE IF line.stream \notin DOMAIN validators
             THEN ProducerRaise(line, "KeyError: validators")
             ELSE IF ~validate(validators[line.stream], VMap(line.record))
             THEN ProducerRaise(line, "ValidationError")
             ELSE LET flattened_record == flatten(line.record, "", flatten_sep)
                  IN IF ~flattened_record.ok
                     THEN ProducerRaise(line, "NameError: json")
                     ELSE /\ input' = Append(input, line)
                          /\ q' = queue_put(q, Msg(MessageType_RECORD, line.stream,
                                                VMap(flattened_record.d)))
                          /\ state' = state_after_record(state)
                          /\ UNCHANGED << pc, exc, file_size, schemas, validators,
                                          key_properties, current_stream_name, records,
                                          consumer_schemas, files_created, written,
                                          stdout, fl, wf >>

\* message_type == "STATE"
ProducerState ==
    /\ pc = "producer" /\ Len(input) < MaxLines
    /\ \E line \in Lines(Len(input) + 1) :
          /\ line.type = "STATE"
          /\ input' = Append(input, line)
          /\ state' = line.value
          /\ UNCHANGED << pc, exc, file_size, schemas, validators, key_properties, q,
                          current_stream_name, records, consumer_schemas,
                          files_created, written, stdout, fl, wf >>

\* message_type == "SCHEMA".  validators[stream] is assigned before flatten_schema
\* is called, so it stays assigned when flatten_schema raises.
ProducerSchema ==
    /\ pc = "producer" /\ Len(input) < MaxLines
    /\ ~queue_full(q)
    /\ \E line \in Lines(Len(input) + 1) :
          /\ line.type = "SCHEMA"
          /\ LET flat == flatten_schema(line.schema.props, "", flatten_schema_sep)
                 validators1 == assigned(validators, line.stream, line.schema)
             IN IF ~flat.ok
                THEN /\ input' = Append(input, line)
                     /\ validators' = validators1
                     /\ q' = queue_put(q, EOFMsg)
                     /\ exc' = "AttributeError: NoneType.items"
                     /\ pc' = after_producer_raise
                     /\ UNCHANGED << file_size, state, schemas, key_properties,
                                     current_stream_name, records, consumer_schemas,
                                     files_created, written, stdout, fl, wf >>
                ELSE /\ input' = Append(input, line)
                     /\ validators' = validators1
                     /\ schemas' = assigned(schemas, line.stream, flat.items)
                     /\ key_properties' =
                            assigned(key_properties, line.stream, line.key_properties)
                     /\ q' = queue_put(q, Msg(MessageType_SCHEMA, line.stream,
                                           StrList(flat.items)))
                     /\ UNCHANGED << pc, exc, file_size, state, current_stream_name,
                                     records, consumer_schemas, files_created, written,
                                     stdout, fl, wf >>

\* Any other message type: logged and skipped.
ProducerUnknown ==
    /\ pc = "producer" /\ Len(input) < MaxLines
    /\ \E line \in Lines(Len(input) + 1) :
          /\ line.type \in parser_types \ {"RECORD", "STATE", "SCHEMA"}
          /\ input' = Append(input, line)
          /\ UNCHANGED << pc, exc, file_size, state, schemas, validators, key_properties,
                          q, current_stream_name, records, consumer_schemas,
                          files_created, written, stdout, fl, wf >>

\* The input ends: w_queue.put(EOF); return state.  main goes on to consumer(q).
ProducerEnd ==
    /\ pc = "producer"
    /\ ~queue_full(q)
    /\ q' = queue_put(q, EOFMsg)
    /\ pc' = "consumer"
    /\ UNCHANGED << exc, file_size, input, state, schemas, validators, key_properties,
                    current_stream_name, records, consumer_schemas, files_created,
                    written, stdout, fl, wf >>

(***************************************************************************)
(* pyarrow, as create_dataframe and write_file use it.  A column of Python *)
(* values gets the type pa.table infers: null when every value is None,    *)
(* int64 or string when the other values are all ints or all strings; a    *)
(* column mixing ints and strings raises ArrowInvalid.                     *)
(***************************************************************************)
pa_infer(values) ==
    LET kinds == {values[i].t : i \in DOMAIN values} \ {"null"}
    IN IF kinds = {} THEN [ok |-> TRUE, type |-> "null"]
       ELSE IF kinds = {"int"} THEN [ok |-> TRUE, type |-> "int64"]
       ELSE IF kinds = {"str"} THEN [ok |-> TRUE, type |-> "string"]
       ELSE [ok |-> FALSE, type |-> "null"]

\* Converting a column to a type the caller gives.
pa_convert(values, type) ==
    LET kinds == {values[i].t : i \in DOMAIN values} \ {"null"}
    IN [ok |-> \/ kinds = {}
               \/ (type = "int64" /\ kinds = {"int"})
               \/ (type = "string" /\ kinds = {"str"}),
        type |-> type]

\* A dataframe_schema: None, or the schema of a table (column -> type).
NoSchema == [set |-> FALSE, s |-> <<>>]
SomeSchema(s) == [set |-> TRUE, s |-> s]

\* pa.table(columns, schema=schema): [ok, schema, columns]
pa_table(columns, schema) ==
    LET cols == [f \in DOMAIN columns |->
                    IF schema.set THEN pa_convert(columns[f], schema.s[f])
                    ELSE pa_infer(columns[f])]
    IN [ok |-> \A f \in DOMAIN cols : cols[f].ok,
        schema |-> SomeSchema([f \in DOMAIN cols |-> cols[f].type]),
        columns |-> columns]

\* extract_field_names
extract_field_names(list_dict) == UNION {KeysOf(list_dict[i]) : i \in DOMAIN list_dict}

\* create_dataframe: the table of the rows, one column per field.
create_dataframe(list_dict, fields, dataframe_schema) ==
    LET columns == [f \in fields |-> [i \in DOMAIN list_dict |-> DictGet(list_dict[i], f)]]
    IN IF dataframe_schema.set
       THEN pa_table(columns, NoSchema)
       ELSE pa_table(columns, dataframe_schema)

\* batch_size = 20000 in write_file, scaled down so that a modelled batch
\* spans several sub-batches.
batch_size == 2

\* The part files of one write_file call: for row_number in range(0, len(record),
\* batch_size).  Each part keeps the schema of the table built for it and the
\* schema its ParquetWriter was opened with.  [ok, exc, parts]
RECURSIVE write_parts(_, _, _, _, _)
write_parts(record, fields, row_number, dataframe_schema, parts) ==
    IF row_number >= Len(record) THEN [ok |-> TRUE, exc |-> "none", parts |-> parts]
    ELSE LET last == IF row_number + batch_size < Len(record)
                     THEN row_number + batch_size ELSE Len(record)
             rows == SubSeq(record, row_number + 1, last)
             dataframe == create_dataframe(rows, fields, dataframe_schema)
             writer_schema == IF dataframe_schema.set THEN dataframe_schema
                              ELSE dataframe.schema
             part == [row_number |-> row_number, rows |-> rows,
                      columns |-> dataframe.columns,
                      table_schema |-> dataframe.schema,
                      writer_schema |-> writer_schema, complete |-> FALSE]
         IN IF ~dataframe.ok
            THEN [ok |-> FALSE, exc |-> "ArrowInvalid",
                  parts |-> Append(parts, [part EXCEPT !.columns = << >>,
                                                        !.table_schema = NoSchema,
                                                        !.writer_schema = NoSchema])]
            ELSE IF dataframe.schema # writer_schema
            THEN [ok |-> FALSE, exc |-> "ValueError: table schema mismatch",
                  parts |-> Append(parts, part)]
            ELSE write_parts(record, fields, row_number + batch_size, writer_schema,
                             Append(parts, [part EXCEPT !.complete = TRUE]))

\* write_file(current_stream_name, record): record is the batch, perm the outcome
\* of random.shuffle, disk_ok whether open() succeeds, timestamp the clock's
\* reading.  [ok, exc, flush]
write_file(stream_name, record, perm, disk_ok, timestamp) ==
    LET fields == extract_field_names(record)
        shuffled == [i \in DOMAIN record |-> record[perm[i]]]
        res == IF disk_ok
               THEN write_parts(shuffled, fields, 0, NoSchema, <<>>)
               ELSE [ok |-> FALSE, exc |-> "OSError", parts |-> <<>>]
    IN [ok |-> res.ok, exc |-> res.exc,
        flush |-> [stream |-> stream_name, timestamp |-> timestamp, batch |-> record,
                   shuffled |-> shuffled, fields |-> fields, parts |-> res.parts,
                   ok |-> res.ok]]

(***************************************************************************)
(* persist_messages: the consumer                                          *)
(***************************************************************************)
\* state = producer(messages, q), then consumer(q): the consumer runs once the
\* producer has returned.
consumer_started_with_producer(at) == at \in {"producer", "consumer"}
consumer_started(at) == at = "consumer"

\* (stream_name != current_stream_name) and (current_stream_name != None)
stream_switched_never(stream_name, current) == FALSE
stream_switched_same(stream_name, current) == stream_name = current /\ current # None
stream_switched(stream_name, current) == stream_name # current /\ current # None

\* (file_size > 0) and (not len(records[stream_name]) % file_size)
threshold_reached(size, length) == size > 0 /\ length % size = 0

\* records[stream_name].append(record)
buffer_prepend(buffer, record) == << record >> \o buffer
buffer_append(buffer, record) == Append(buffer, record)

\* records.pop(stream): the map without the stream
Popped_kept(recs, stream) == recs
Popped(recs, stream) == [s \in DOMAIN recs \ {stream} |-> recs[s]]

\* datetime.utcnow(): each write_file call reads a later time than the one before.
utcnow == Len(written) + 1

\* The file path write_file returns.
filepath(flush) == [stream |-> flush.stream, timestamp |-> flush.timestamp]

\* An exception leaves consumer, persist_messages and main: the process exits.
ConsumerRaise(kind, current, recs, wr) ==
    /\ q' = Tail(q)
    /\ exc' = kind
    /\ pc' = "exited"
    /\ current_stream_name' = current
    /\ records' = recs
    /\ written' = wr
    /\ UNCHANGED << file_size, input, state, schemas, validators, key_properties,
                    consumer_schemas, files_created, stdout, fl, wf >>

\* The rest of the RECORD branch, from "current_stream_name = stream_name" on, with
\* the buffers, file list and write log the stream-switch flush left.
AdmitRecord(stream_name, record, recs, fc, wr) ==
    IF stream_name \notin DOMAIN recs
    THEN /\ records' = [s \in DOMAIN recs \cup {stream_name} |->
                           IF s = stream_name THEN << record >> ELSE recs[s]]
         /\ current_stream_name' = stream_name
         /\ files_created' = fc
         /\ written' = wr
         /\ q' = Tail(q)
         /\ UNCHANGED << pc, exc, file_size, input, state, schemas, validators,
                         key_properties, consumer_schemas, stdout, fl, wf >>
    ELSE LET appended == [recs EXCEPT ![stream_name] = buffer_append(@, record)]
         IN IF ~threshold_reached(file_size, Len(appended[stream_name]))
            THEN /\ records' = appended
                 /\ current_stream_name' = stream_name
                 /\ files_created' = fc
                 /\ written' = wr
                 /\ q' = Tail(q)
                 /\ UNCHANGED << pc, exc, file_size, input, state, schemas, validators,
                                 key_properties, consumer_schemas, stdout, fl, wf >>
            ELSE \E perm \in Permutations(DOMAIN appended[stream_name]),
                    disk_ok \in BOOLEAN :
                   LET res == write_file(stream_name, appended[stream_name], perm,
                                         disk_ok, Len(wr) + 1)
                   IN IF ~res.ok
                      THEN ConsumerRaise(res.exc, stream_name,
                                         Popped(appended, stream_name),
                                         Append(wr, res.flush))
                      ELSE /\ records' = Popped(appended, stream_name)
                           /\ current_stream_name' = stream_name
                           /\ files_created' = Append(fc, filepath(res.flush))
                           /\ written' = Append(wr, res.flush)
                           /\ q' = Tail(q)
                           /\ UNCHANGED << pc, exc, file_size, input, state, schemas,
                                           validators, key_properties, consumer_schemas,
                                           stdout, fl, wf >>

\* message_type == MessageType.RECORD
ConsumerRecord ==
    /\ consumer_started(pc) /\ q # <<>>
    /\ Head(q).message_type = MessageType_RECORD
    /\ LET stream_name == Head(q).stream_name
           record == Head(q).record.m
       IN IF stream_switched(stream_name, current_stream_name)
          THEN IF current_stream_name \notin DOMAIN records
               THEN ConsumerRaise("KeyError: records.pop", current_stream_name, records, written)
               ELSE \E perm \in Permutations(DOMAIN records[current_stream_name]),
                       disk_ok \in BOOLEAN :
                      LET res == write_file(current_stream_name,
                                            records[current_stream_name], perm,
                                            disk_ok, utcnow)
                      IN IF ~res.ok
                         THEN ConsumerRaise(res.exc, current_stream_name,
                                            Popped(records, current_stream_name),
                                            Append(written, res.flush))
                         ELSE AdmitRecord(stream_name, record,
                                          Popped(records, current_stream_name),
                                          Append(files_created, filepath(res.flush)),
                                          Append(written, res.flush))
          ELSE AdmitRecord(stream_name, record, records, files_created, written)

\* message_type == MessageType.SCHEMA
ConsumerSchema ==
    /\ consumer_started(pc) /\ q # <<>>
    /\ Head(q).message_type = MessageType_SCHEMA
    /\ consumer_schemas' = assigned(consumer_schemas, Head(q).stream_name, Head(q).record)
    /\ q' = Tail(q)
    /\ UNCHANGED << pc, exc, file_size, input, state, schemas, validators,
                    key_properties, current_stream_name, records, files_created,
                    written, stdout, fl, wf >>

\* message_type == MessageType.EOF: the last flush, then break; persist_messages
\* returns state to main.
ConsumerEOF ==
    /\ consumer_started(pc) /\ q # <<>>
    /\ Head(q).message_type = MessageType_EOF
    /\ IF current_stream_name \notin DOMAIN records
       THEN ConsumerRaise("KeyError: records.pop", current_stream_name, records, written)
       ELSE \E perm \in Permutations(DOMAIN records[current_stream_name]),
               disk_ok \in BOOLEAN :
              LET res == write_file(current_stream_name, records[current_stream_name],
                                    perm, disk_ok, utcnow)
              IN IF ~res.ok
                 THEN ConsumerRaise(res.exc, current_stream_name,
                                    Popped(records, current_stream_name),
                                    Append(written, res.flush))
                 ELSE /\ records' = Popped(records, current_stream_name)
                      /\ files_created' = Append(files_created, filepath(res.flush))
                      /\ written' = Append(written, res.flush)
                      /\ q' = Tail(q)
                      /\ pc' = "emit_state"
                      /\ UNCHANGED << exc, file_size, input, state, schemas, validators,
                                      key_properties, current_stream_name,
                                      consumer_schemas, stdout, fl, wf >>

(***************************************************************************)
(* main: emit_state(state), then "Exiting normally"                        *)
(***************************************************************************)
\* emit_state: if state is not None, one line on standard output
emit_state(st) == IF st # VNull THEN << json_dumps(st) \o "\n" >> ELSE << >>

\* state = persist_messages(...), then emit_state(state): main emits once
\* persist_messages has returned.
persist_messages_returned_early(at) == at \in {"consumer", "emit_state"}
persist_messages_returned(at) == at = "emit_state"

EmitState ==
    /\ persist_messages_returned(pc)
    /\ stdout' = stdout \o emit_state(state)
    /\ pc' = "exited"
    /\ UNCHANGED << exc, file_size, input, state, schemas, validators, key_properties,
                    q, current_stream_name, records, consumer_schemas, files_created,
                    written, fl, wf >>

(***************************************************************************)
(* The run                                                                 *)
(***************************************************************************)
Idle == [op |-> "idle"]

Init ==
    /\ pc = "producer"
    /\ exc = "none"
    /\ file_size \in FileSizes
    /\ input = << >>
    /\ state = VNull
    /\ schemas = << >>
    /\ validators = << >>
    /\ key_properties = << >>
    /\ q = << >>
    /\ current_stream_name = None
    /\ records = << >>
    /\ consumer_schemas = << >>
    /\ files_created = << >>
    /\ written = << >>
    /\ stdout = << >>
    /\ fl = Idle
    /\ wf = Idle

Next ==
    \/ ProducerBadLine
    \/ ProducerNoMessage
    \/ ProducerRecord
    \/ ProducerState
    \/ ProducerSchema
    \/ ProducerUnknown
    \/ ProducerEnd
    \/ ConsumerRecord
    \/ ConsumerSchema
    \/ ConsumerEOF
    \/ EmitState

Spec == Init /\ [][Next]_vars

(***************************************************************************)
(* flatten and flatten_schema on their own: a schema is flattened, then    *)
(* records are validated against it and flattened, as the producer does    *)
(* for a SCHEMA line and the RECORD lines after it.                        *)
(***************************************************************************)
FlattenList == VList(<< VStr("10"), VStr("11") >>)

\* The example of flatten's docstring and the result the docstring gives for it.
DocKey4 == VMap(<< Pair("key_5", VInt(3)), Pair("key_6", FlattenList) >>)
DocKey2 == VMap(<< Pair("key_3", VInt(2)), Pair("key_4", DocKey4) >>)
DocExample == << Pair("key_1", VInt(1)), Pair("key_2", DocKey2) >>
DocExpected ==
    << Pair("key_1", VInt(1)), Pair("key_2__key_3", VInt(2)),
       Pair("key_2__key_4__key_5", VInt(3)),
       Pair("key_2__key_4__key_6", VStr(py_str(FlattenList))) >>

\* The records flattened: key_1 holds a scalar or a list; key_2 is absent, null, a
\* scalar or a mapping; a third key may be one no schema below declares.
FlattenRecords ==
    LET first == {<< Pair("key_1", v) >> : v \in {VInt(1), VNull, VStr("x"), FlattenList}}
        second == {<< >>} \cup
                  {<< Pair("key_2", v) >> :
                      v \in {VNull, VInt(2), VMap(<< >>), VMap(<< Pair("key_3", VInt(2)) >>),
                             VMap(<< Pair("key_9", VInt(1)) >>), DocKey2}}
        third == {<< >>, << Pair("z", VInt(1)) >>, << Pair("key_2__key_3", VInt(7)) >>}
    IN {a \o b \o c : a \in first, b \in second, c \in third}

\* The schemas flattened: key_1 is a scalar, an array or untyped; key_2 is absent,
\* a scalar, or an object with or without "properties".
FlattenSchemas ==
    LET first == {<< Pair("key_1", n) >> : n \in {Node(TInt), Node(TStr), Node(TArr), NodeNoType}}
        key_4 == NodeObj(TObj, << Pair("key_5", Node(TInt)), Pair("key_6", Node(TArr)) >>)
        second == {<< >>} \cup
                  {<< Pair("key_2", n) >> :
                      n \in {Node(TInt),
                             NodeObj(TObj, << Pair("key_3", Node(TInt)) >>),
                             NodeObj(TObj, << Pair("key_3", Node(TInt)), Pair("key_4", key_4) >>),
                             [hasType |-> TRUE, type |-> TObj, hasProps |-> FALSE,
                              props |-> << >>]}}
    IN {NodeObj({"object"}, a \o b) : a \in first, b \in second}

\* schemas[stream] = flatten_schema(message["schema"]["properties"])
FlattenSchemaCall ==
    /\ fl.op = "idle"
    /\ \E schema \in FlattenSchemas :
          fl' = [op |-> "flatten_schema", schema |-> schema,
                 keys |-> flatten_schema(schema.props, "", flatten_schema_sep)]
    /\ UNCHANGED << pipeline_vars, wf >>

\* validators[stream].validate(record); flatten(record)
FlattenCall ==
    /\ fl.op = "flatten_schema" /\ fl.keys.ok
    /\ \E record \in FlattenRecords :
          fl' = [op |-> "flatten", schema |-> fl.schema, keys |-> fl.keys,
                 record |-> record,
                 accepted |-> validate(fl.schema, VMap(record)),
                 row |-> flatten(record, "", flatten_sep)]
    /\ UNCHANGED << pipeline_vars, wf >>

NextFlatten == FlattenSchemaCall \/ FlattenCall

SpecFlatten == Init /\ [][NextFlatten]_vars

(***************************************************************************)
(* write_file on its own: one call with a batch of flattened rows.         *)
(***************************************************************************)
\* The longest batch, in rows.
MaxRows == 3

\* The rows of a batch: column a holds an int, None or a string; column b is
\* absent from the row or holds an int.
WriteRows ==
    {a \o b : a \in {<< Pair("a", v) >> : v \in {VInt(1), VNull, VStr("x")}},
              b \in {<< >>, << Pair("b", VInt(2)) >>}}

WriteBatches == UNION {[1..n -> WriteRows] : n \in 1..MaxRows}

WriteFileCall ==
    /\ wf.op = "idle"
    /\ \E record \in WriteBatches, disk_ok \in BOOLEAN :
          \E perm \in Permutations(DOMAIN record) :
              wf' = [op |-> "write_file",
                     res |-> write_file("A", record, perm, disk_ok, 1)]
    /\ UNCHANGED << pipeline_vars, fl >>

NextWrite == WriteFileCall

SpecWrite == Init /\ [][NextWrite]_vars

(***************************************************************************)
(* The compression set-up of persist_messages and the names write_file     *)
(* gives the part files of one batch.                                      *)
(***************************************************************************)
\* A compression_method: None, or a name.
NoMethod == [given |-> FALSE, name |-> ""]
Method(name) == [given |-> TRUE, name |-> name]
CompressionMethods ==
    {NoMethod} \cup
    {Method(n) : n \in {"", "gzip", "GZIP", "SNAPPY", "Zstd", "lz4", "brotli", "rar", "none"}}

\* str.upper() on the names above.
upper(name) ==
    CASE name = "gzip" -> "GZIP" [] name = "Zstd" -> "ZSTD" [] name = "lz4" -> "LZ4"
      [] name = "brotli" -> "BROTLI" [] name = "rar" -> "RAR" [] name = "none" -> "NONE"
      [] OTHER -> name

extension_mapping ==
    [SNAPPY |-> ".snappy", GZIP |-> ".gz", BROTLI |-> ".br", ZSTD |-> ".zstd",
     LZ4 |-> ".lz4"]

\* if compression_method: ... : the method and the extension the run goes on with.
compression_setup(method) ==
    IF method.given /\ method.name # ""
    THEN IF upper(method.name) \in DOMAIN extension_mapping
         THEN [compression_method |-> method,
               compression_extension |-> extension_mapping[upper(method.name)]]
         ELSE [compression_method |-> NoMethod, compression_extension |-> ""]
    ELSE [compression_method |-> method, compression_extension |-> ""]

\* filename_separator: "-", or os.path.sep with streams_in_separate_folder.
filename_separator(streams_in_separate_folder) ==
    IF streams_in_separate_folder THEN "/" ELSE "-"

\* os.path.join(destination_path, stream + separator + timestamp), with the
\* destination "." and the clock's reading written as a number.
filepath_text(stream_name, streams_in_separate_folder, timestamp) ==
    "./" \o stream_name \o filename_separator(streams_in_separate_folder)
         \o IntText(timestamp)

\* file_part = filepath + "." + str(row_number) + ".parquet" + compression_extension
file_part(path, row_number, compression_extension) ==
    path \o "." \o IntText(row_number) \o ".parquet" \o compression_extension

\* ParquetWriter(f, schema, compression=compression_method): pyarrow takes None
\* and the names of its codecs in any case, and raises for any other name.
pa_compression_names == {"NONE", "SNAPPY", "GZIP", "LZO", "BROTLI", "LZ4", "ZSTD"}
pa_compression_ok(method) ==
    ~method.given \/ upper(method.name) \in pa_compression_names

\* The row offsets of the parts of a batch of n rows: range(0, n, batch_size).
part_offsets(n) == {r \in 0..(n - 1) : r % batch_size = 0}

\* persist_messages is entered with a compression_method and writes one batch of
\* n rows: the names of the part files it opens and whether the first
\* ParquetWriter takes the method.
CompressionCall ==
    /\ wf.op = "idle"
    /\ \E method \in CompressionMethods, folder \in BOOLEAN, stream_name \in Streams,
          n \in 1..MaxRows :
          LET setup == compression_setup(method)
              path == filepath_text(stream_name, folder, 1)
              ok == pa_compression_ok(setup.compression_method)
              opened == IF ok THEN part_offsets(n) ELSE {0}
          IN wf' = [op |-> "compression", given |-> method, folder |-> folder,
                    stream |-> stream_name, rows |-> n,
                    compression_method |-> setup.compression_method,
                    compression_extension |-> setup.compression_extension,
                    filepath |-> path,
                    file_parts |-> {file_part(path, r, setup.compression_extension) :
                                       r \in opened},
                    ok |-> ok]
    /\ UNCHANGED << pipeline_vars, fl >>

NextCompression == CompressionCall

SpecCompression == Init /\ [][NextCompression]_vars

(***************************************************************************)
(* What the input read so far says, for the properties below.              *)
(***************************************************************************)
ProducerExceptions ==
    {"Exception: Unable to parse", "ValueError: record before schema",
     "KeyError: validators", "ValidationError", "NameError: json",
     "AttributeError: NoneType.items", "AttributeError: NoneType.asdict"}
WriteExceptions == {"ArrowInvalid", "ValueError: table schema mismatch", "OSError"}

\* The index of the last line of a type among the first n lines, 0 when there is none.
LastIndex(type, n) ==
    LET at == {i \in 1..n : input[i].type = type}
    IN IF at = {} THEN 0 ELSE CHOOSE i \in at : \A j \in at : j <= i

\* A SCHEMA line for the stream is among the first n lines.
SchemaSeen(stream, n) ==
    \E i \in 1..n : input[i].type = "SCHEMA" /\ input[i].stream = stream

\* The schema of the last SCHEMA line for the stream among the first n lines.
LatestSchema(stream, n) ==
    LET at == {i \in 1..n : input[i].type = "SCHEMA" /\ input[i].stream = stream}
    IN input[CHOOSE i \in at : \A j \in at : j <= i].schema

\* Every object-typed property of a schema node has "properties".
RECURSIVE ObjectsHaveProperties(_)
ObjectsHaveProperties(props) ==
    \A i \in DOMAIN props :
        "object" \in props[i].v.type =>
            props[i].v.hasProps /\ ObjectsHaveProperties(props[i].v.props)

\* Every line is a message, every schema is one flatten_schema takes, and every
\* Record comes after a Schema of its stream and is valid against the latest one.
WellFormed ==
    \A i \in DOMAIN input :
        /\ input[i].type \in parser_types
        /\ input[i].type = "SCHEMA" => ObjectsHaveProperties(input[i].schema.props)
        /\ input[i].type = "RECORD" =>
              /\ SchemaSeen(input[i].stream, i - 1)
              /\ validate(LatestSchema(input[i].stream, i - 1), VMap(input[i].record))

\* The (message type, stream) of the messages the lines read so far put on the queue.
RECURSIVE Enqueued(_)
Enqueued(lines) ==
    IF lines = << >> THEN << >>
    ELSE LET line == lines[Len(lines)]
             front == Enqueued(SubSeq(lines, 1, Len(lines) - 1))
         IN IF line.type = "RECORD"
            THEN Append(front, << MessageType_RECORD, line.stream >>)
            ELSE IF line.type = "SCHEMA"
            THEN Append(front, << MessageType_SCHEMA, line.stream >>)
            ELSE front

QueueKinds == [i \in DOMAIN q |-> << q[i].message_type, q[i].stream_name >>]

(***************************************************************************)
(* Properties                                                              *)
(***************************************************************************)

\* C1: when the consumer takes a Record of stream B while the current stream is A
\* (not None, not B), that step hands all of A's buffered rows to write_file as one
\* batch under A's name, and B's record is in a buffer afterwards only if that
\* write succeeded: B's buffer is then that one record.  When A has no buffered
\* rows the step raises and B's record is not admitted either.
C1_StreamSwitchFlush ==
    [][ ( /\ pc = "consumer" /\ q # << >>
          /\ Head(q).message_type = MessageType_RECORD
          /\ current_stream_name # None
          /\ Head(q).stream_name # current_stream_name )
        => LET A == current_stream_name
               B == Head(q).stream_name
           IN IF A \in DOMAIN records
              THEN /\ Len(written') = Len(written) + 1
                   /\ written'[Len(written')].stream = A
                   /\ written'[Len(written')].batch = records[A]
                   /\ A \notin DOMAIN records'
                   /\ IF written'[Len(written')].ok
                      THEN B \in DOMAIN records' /\ records'[B] = << Head(q).record.m >>
                      ELSE B \notin DOMAIN records' /\ exc' \in WriteExceptions
              ELSE /\ written' = written
                   /\ B \notin DOMAIN records'
                   /\ exc' = "KeyError: records.pop" ]_vars

\* C1 witness: Record(A), Record(A), Record(B) with no threshold: one flush holds
\* both rows of A and B's record is the only buffered row.
C1_Witness ==
    /\ file_size = -1
    /\ Len(written) = 1
    /\ written[1].stream = "A" /\ written[1].ok /\ Len(written[1].batch) = 2
    /\ current_stream_name = "B"
    /\ DOMAIN records = {"B"} /\ Len(records["B"]) = 1

\* C2: with file_size > 0, no buffer holds file_size or more rows once a Record
\* has been processed.
C2_ThresholdFlush ==
    file_size > 0 => \A s \in DOMAIN records : Len(records[s]) < file_size

\* C3: a run over a well-formed input ends normally, with every buffer flushed
\* and the queue empty, unless writing a file or flattening a record failed.
C3_EndOfInput ==
    (pc = "exited" /\ WellFormed /\ exc \notin WriteExceptions \cup {"NameError: json"})
        => exc = "none" /\ DOMAIN records = {} /\ q = << >>

\* C4: a run that ends normally has written to standard output the value of the
\* last State line when no Record line follows it, and nothing otherwise; nothing
\* is written before the end of the run and never more than one line.
C4_CheckpointSuppression ==
    LET n == Len(input)
        lastState == LastIndex("STATE", n)
    IN /\ Len(stdout) <= 1
       /\ (pc # "exited" \/ exc # "none") => stdout = << >>
       /\ (pc = "exited" /\ exc = "none") =>
             stdout = IF lastState > LastIndex("RECORD", n)
                      THEN << json_dumps(input[lastState].value) \o "\n" >>
                      ELSE << >>

\* C4 witness: a State before a Record is suppressed and a State after the last
\* Record is reported.
C4_Witness ==
    /\ pc = "exited" /\ exc = "none" /\ stdout # << >>
    /\ \E i, j \in DOMAIN input :
          i < j /\ input[i].type = "STATE" /\ input[j].type = "RECORD"

\* C5: once an exception was raised (parse, record before schema, validation,
\* flatten, write) nothing has been and nothing is written to standard output.
C5_NoCheckpointOnFailure ==
    exc # "none" => stdout = << >> /\ pc # "emit_state"

\* C5 witness: a write error ends the run while a checkpoint candidate is held.
C5_Witness ==
    /\ exc \in WriteExceptions /\ state # VNull /\ stdout = << >>

\* C6: a Record line whose stream has no Schema line before it ends the run with
\* the record-before-schema error, and no file is written.
C6_RecordBeforeSchema ==
    LET n == Len(input)
    IN (n > 0 /\ input[n].type = "RECORD" /\ ~SchemaSeen(input[n].stream, n - 1))
          => /\ pc = "exited"
             /\ exc = "ValueError: record before schema"
             /\ written = << >> /\ files_created = << >>

\* C6 witness: the error strikes after records of another stream were accepted.
C6_Witness ==
    /\ exc = "ValueError: record before schema"
    /\ \E i \in DOMAIN q : q[i].message_type = MessageType_RECORD

Range(f) == {f[i] : i \in DOMAIN f}

RECURSIVE HoldsList(_)
HoldsList(m) ==
    \E j \in DOMAIN m :
        \/ m[j].v.t = "list"
        \/ m[j].v.t = "map" /\ HoldsList(m[j].v.m)

\* Every field of the mapping, at every depth, is a property the schema declares,
\* and its value is a mapping exactly when the property's type includes "object".
RECURSIVE Conforms(_, _)
Conforms(props, m) ==
    \A j \in DOMAIN m :
        \E i \in DOMAIN props :
            /\ props[i].k = m[j].k
            /\ ("object" \in props[i].v.type) = (m[j].v.t = "map")
            /\ m[j].v.t = "map" =>
                  props[i].v.hasProps /\ Conforms(props[i].v.props, m[j].v.m)

C9_FlattenDocExample ==
    (fl.op = "flatten" /\ fl.record = DocExample)
        => fl.row.ok /\ fl.row.d = DocExpected

\* C10: every table write_file builds for a sub-batch has the schema of the first
\* sub-batch's table, and every part file opened is written.
C10_SingleSchemaPerFlush ==
    wf.op = "write_file" =>
        LET parts == wf.res.flush.parts
        IN \A i \in DOMAIN parts :
              parts[i].table_schema.set =>
                  /\ parts[i].table_schema = parts[1].table_schema
                  /\ parts[i].complete

\* C11: the step that reads a JSON line whose type is none of RECORD, STATE and
\* SCHEMA raises nothing, leaves the producer running and leaves the checkpoint
\* candidate, the registered schemas and validators and the queue as they were.
C11_UnknownTypeSkipped ==
    [][ ( /\ pc = "producer" /\ Len(input') = Len(input) + 1
          /\ input'[Len(input')].type \notin {"RECORD", "STATE", "SCHEMA", "BAD"} )
        => ( /\ exc' = "none" /\ pc' = "producer"
             /\ UNCHANGED << state, schemas, validators, key_properties, q >> ) ]_vars

\* The joined paths of the nodes whose type does not include "object", reached
\* through the properties of the nodes whose type does.
RECURSIVE LeafPaths(_, _)
LeafPaths(props, parent_key) ==
    UNION {IF "object" \in props[i].v.type
           THEN LeafPaths(props[i].v.props, new_key(parent_key, "__", props[i].k))
           ELSE {new_key(parent_key, "__", props[i].k)} : i \in DOMAIN props}

\* C12: flatten_schema fails for no schema, and returns exactly the "__"-joined
\* paths of the non-object nodes, each once; array and untyped nodes are leaves.
C12_SchemaFlattening ==
    fl.op = "flatten_schema" =>
        /\ fl.keys.ok
        /\ Range(fl.keys.items) = LeafPaths(fl.schema.props, "")
        /\ Cardinality(Range(fl.keys.items)) = Len(fl.keys.items)

\* C13: a method whose upper-cased name is not in the codec table leaves the run
\* with no method and an empty extension, and the writer takes it; a name in the
\* table is kept and every part file's name ends with its extension.
C13_UnsupportedCompression ==
    (wf.op = "compression" /\ wf.given.given) =>
        IF upper(wf.given.name) \in DOMAIN extension_mapping
        THEN /\ wf.compression_method = wf.given /\ wf.ok
             /\ wf.file_parts =
                    {wf.filepath \o "." \o IntText(r) \o ".parquet"
                        \o extension_mapping[upper(wf.given.name)] :
                        r \in part_offsets(wf.rows)}
        ELSE /\ wf.compression_method = NoMethod
             /\ wf.compression_extension = "" /\ wf.ok

\* The rows of the RECORD lines read, flattened, each with its stream, in input
\* order; and the rows of the batches handed to write_file, in call order.
RECURSIVE IngestedRows(_)
IngestedRows(lines) ==
    IF lines = << >> THEN << >>
    ELSE LET line == lines[Len(lines)]
             front == IngestedRows(SubSeq(lines, 1, Len(lines) - 1))
         IN IF line.type = "RECORD"
            THEN Append(front, [stream |-> line.stream,
                                row |-> flatten(line.record, "", flatten_sep).d])
            ELSE front

RECURSIVE FlushedRows(_)
FlushedRows(flushes) ==
    IF flushes = << >> THEN << >>
    ELSE LET flush == flushes[Len(flushes)]
         IN FlushedRows(SubSeq(flushes, 1, Len(flushes) - 1)) \o
            [j \in DOMAIN flush.batch |-> [stream |-> flush.stream, row |-> flush.batch[j]]]

Count(seq, x) == Cardinality({i \in DOMAIN seq : seq[i] = x})
SameMultiset(s1, s2) ==
    \A x \in Range(s1) \cup Range(s2) : Count(s1, x) = Count(s2, x)

EndedNormally == pc \in {"emit_state", "exited"} /\ exc = "none"

\* C14: when a run has ended normally, the rows of all batches handed to
\* write_file are, as a multiset, the flattened records of the RECORD lines of the
\* input, each under its own stream; every batch was written whole, and no
\* buffer is left.
C14_RecordConservation ==
    EndedNormally =>
        /\ SameMultiset(FlushedRows(written), IngestedRows(input))
        /\ \A i \in DOMAIN written :
              /\ written[i].ok
              /\ SameMultiset(written[i].shuffled, written[i].batch)
        /\ DOMAIN records = {}

\* C14 witness: a run ended normally after two flushes that hold three rows or
\* more between them.
C14_Witness ==
    /\ EndedNormally /\ pc = "exited"
    /\ Len(written) >= 2
    /\ Len(FlushedRows(written)) >= 3

\* C15: in every state the buffer map holds at most one stream, and a stream it
\* holds is the current stream with at least one row; once the consumer has
\* handled EOF without an exception the map is empty.
C15_SingleOpenBuffer ==
    /\ Cardinality(DOMAIN records) <= 1
    /\ \A s \in DOMAIN records : s = current_stream_name /\ records[s] # << >>
    /\ (pc = "emit_state" => DOMAIN records = {})

\* C15 witness: the consumer has flushed stream A at a switch and now buffers
\* rows of stream B only.
C15_Witness ==
    /\ pc = "consumer"
    /\ \E i \in DOMAIN written : written[i].stream = "A" /\ written[i].ok
    /\ DOMAIN records = {"B"} /\ current_stream_name = "B"

\* The rows of one stream among rows tagged with their stream, and prefixes.
StreamRows(rows, s) == SelectSeq(rows, LAMBDA x : x.stream = s)
IsPrefix(a, b) == Len(a) <= Len(b) /\ SubSeq(b, 1, Len(a)) = a

\* C16: every batch handed to write_file is named after a stream of the input and
\* is not empty, and for each stream the batches written under its name, one
\* after the other in call order, are a prefix of the flattened records of that
\* stream's RECORD lines in input order: each batch is a contiguous run of the
\* stream's records and earlier flushes hold earlier records.
C16_OneStreamPerBatch ==
    written # << >> =>
        /\ \A i \in DOMAIN written :
              written[i].stream \in Streams /\ written[i].batch # << >>
        /\ \A s \in Streams :
              IsPrefix(StreamRows(FlushedRows(written), s),
                       StreamRows(IngestedRows(input), s))

\* C16 witness: a stream was flushed twice, the first time with two rows or more.
C16_Witness ==
    \E i, j \in DOMAIN written :
        /\ i < j /\ written[i].stream = written[j].stream
        /\ Len(written[i].batch) >= 2 /\ written[j].ok

\* C17: while the producer is reading, and after it raised, write_file has not
\* been called and no file exists; when write_file has been called the producer
\* had returned without an exception, with every line read and EOF enqueued last.
C17_NothingWrittenBeforeIngestionEnds ==
    /\ (pc = "producer" \/ exc \in ProducerExceptions) =>
           written = << >> /\ files_created = << >>
    /\ written # << >> =>
           /\ pc # "producer" /\ exc \notin ProducerExceptions
           /\ q = << >> \/ q[Len(q)] = EOFMsg

\* C17 witness: the producer raised at a line that follows an accepted record;
\* the record is still on the queue and nothing was written.
C17_Witness ==
    /\ exc \in ProducerExceptions /\ pc = "exited"
    /\ \E i \in DOMAIN q : q[i].message_type = MessageType_RECORD
    /\ written = << >>

\* Every row of a flush is in a part file that was written whole.
FlushComplete(flush) ==
    /\ flush.ok
    /\ \A k \in DOMAIN flush.parts : flush.parts[k].complete
    /\ SameMultiset([j \in DOMAIN flush.batch |->
                        [stream |-> flush.stream, row |-> flush.batch[j]]],
                    FlushedRows([k \in DOMAIN flush.parts |->
                                    [stream |-> flush.stream,
                                     batch |-> flush.parts[k].rows]]))

\* C18: whenever standard output holds a line, main has emitted it after
\* persist_messages returned: the consumer has taken EOF (the queue is empty), no exception was raised, no row is buffered, every
\* write_file call wrote all its parts, and the rows written are the records of
\* the input.
C18_CheckpointAfterDurability ==
    stdout # << >> =>
        /\ pc = "exited" /\ exc = "none"
        /\ q = << >> /\ DOMAIN records = {}
        /\ \A i \in DOMAIN written : FlushComplete(written[i])
        /\ SameMultiset(FlushedRows(written), IngestedRows(input))

\* C18 witness: a checkpoint was emitted in a run that wrote a record.
C18_Witness == stdout # << >> /\ written # << >> /\ Len(written[1].batch) >= 1

\* The (message type, stream) of every message the producer has put so far.
AllSent ==
    IF pc = "producer" THEN Enqueued(input)
    ELSE IF exc \in ProducerExceptions
    THEN Append(Enqueued(SubSeq(input, 1, Len(input) - 1)),
                << MessageType_EOF, break_object >>)
    ELSE Append(Enqueued(input), << MessageType_EOF, break_object >>)

IsSuffix(a, b) == Len(a) <= Len(b) /\ SubSeq(b, Len(b) - Len(a) + 1, Len(b)) = a

EOFCount(queue) ==
    Cardinality({i \in DOMAIN queue : queue[i].message_type = MessageType_EOF})

\* C19: while the producer reads, no EOF is on the queue; once it has returned or
\* raised, the queue is what is left, in order, of the messages it put followed by
\* one EOF, so a queue that is not empty holds exactly one EOF, as its last
\* message; the consumer is running only while EOF is still ahead of it, and
\* persist_messages has returned only with the queue empty.
C19_EndOfStreamSentinel ==
    /\ IsSuffix(QueueKinds, AllSent)
    /\ pc = "producer" => EOFCount(q) = 0
    /\ (pc # "producer" /\ q # << >>) =>
           EOFCount(q) = 1 /\ q[Len(q)].message_type = MessageType_EOF
    /\ pc = "consumer" => q # << >>
    /\ (pc = "emit_state" \/ (pc = "exited" /\ exc = "none")) => q = << >>

\* C19 witness: the consumer has taken every message the producer put before EOF,
\* a record among them, and EOF is the one message left.
C19_Witness ==
    /\ pc = "consumer" /\ current_stream_name # None
    /\ Len(q) = 1 /\ q[1].message_type = MessageType_EOF

\* The rows of the part files of a flush, one part after the other.
RECURSIVE PartRows(_)
PartRows(parts) ==
    IF parts = << >> THEN << >>
    ELSE PartRows(SubSeq(parts, 1, Len(parts) - 1)) \o parts[Len(parts)].rows

\* A flush of n rows has ceil(n / batch_size) parts, all written, at the offsets
\* 0, batch_size, 2 * batch_size, ..., each of batch_size rows at most, and the
\* rows of the parts are the rows of the batch.
Partitioned(flush) ==
    LET n == Len(flush.batch)
        parts == flush.parts
    IN /\ Len(parts) = (n + batch_size - 1) \div batch_size
       /\ \A k \in DOMAIN parts :
             /\ parts[k].row_number = (k - 1) * batch_size
             /\ parts[k].complete
             /\ Len(parts[k].rows) <= batch_size /\ parts[k].rows # << >>
       /\ SameMultiset(PartRows(parts), flush.batch)

\* C20: a write_file call that can open its files and whose columns each hold
\* values of one type writes its batch as such a partition.
C20_SubBatchPartition ==
    (wf.op = "write_file" /\ wf.res.exc \notin {"OSError", "ArrowInvalid"})
        => Partitioned(wf.res.flush)

\* The entries of a dict keyed by stream name are kept for every stream but one.
OthersKept(old, new, stream) ==
    /\ DOMAIN old \subseteq DOMAIN new
    /\ DOMAIN new \subseteq DOMAIN old \cup {stream}
    /\ \A s \in DOMAIN old \ {stream} : new[s] = old[s]

\* C21: the step in which the producer reads a STATE line changes, besides the
\* input read, the checkpoint candidate only.  The step in which it reads a
\* SCHEMA line of stream S calls write_file for nothing, leaves the current
\* stream, the buffers and the checkpoint candidate as they were, and leaves the
\* schema, validator and key properties of every stream other than S as they
\* were.  The step in which the consumer takes a SCHEMA message of S leaves the
\* current stream, the buffers and the files as they were and keeps the schemas
\* it holds for the other streams.
C21_NonRecordFrame ==
    [][ /\ ( /\ pc = "producer" /\ Len(input') = Len(input) + 1
              /\ input'[Len(input')].type = "STATE" )
            => /\ UNCHANGED << pc, exc, schemas, validators, key_properties, q,
                               current_stream_name, records, consumer_schemas,
                               files_created, written, stdout >>
               /\ state' = input'[Len(input')].value
        /\ ( /\ pc = "producer" /\ Len(input') = Len(input) + 1
              /\ input'[Len(input')].type = "SCHEMA" )
            => LET S == input'[Len(input')].stream
               IN /\ UNCHANGED << state, current_stream_name, records,
                                  consumer_schemas, files_created, written, stdout >>
                  /\ OthersKept(schemas, schemas', S)
                  /\ OthersKept(validators, validators', S)
                  /\ OthersKept(key_properties, key_properties', S)
        /\ ( /\ pc = "consumer" /\ q # << >>
              /\ Head(q).message_type = MessageType_SCHEMA )
            => /\ UNCHANGED << pc, exc, state, schemas, validators, key_properties,
                               current_stream_name, records, files_created, written,
                               stdout >>
               /\ OthersKept(consumer_schemas, consumer_schemas', Head(q).stream_name)
               /\ q' = Tail(q)
      ]_vars

\* C21 witness: with stream A registered and a checkpoint candidate set, the
\* producer has just read a SCHEMA line of stream B.
C21_Witness ==
    /\ pc = "producer" /\ Len(input) >= 3
    /\ input[Len(input)].type = "SCHEMA" /\ input[Len(input)].stream = "B"
    /\ DOMAIN schemas = {"A", "B"} /\ DOMAIN validators = {"A", "B"}
    /\ state # VNull

\* C22: a step of the producer removes no stream from schemas, validators and
\* key_properties.  In the step that reads a RECORD line of a stream S with an
\* earlier SCHEMA line, the validator and the flattened schema held for S are
\* those of the last SCHEMA line of S read before; the record is refused with a
\* validation error exactly when that schema rejects it, and is put on the
\* queue, flattened, exactly when that schema accepts it and flatten returns.
C22_SchemaReplacement ==
    [][ /\ DOMAIN schemas \subseteq DOMAIN schemas'
        /\ DOMAIN validators \subseteq DOMAIN validators'
        /\ DOMAIN key_properties \subseteq DOMAIN key_properties'
        /\ ( /\ pc = "producer" /\ Len(input') = Len(input) + 1
              /\ input'[Len(input')].type = "RECORD"
              /\ SchemaSeen(input'[Len(input')].stream, Len(input)) )
            => LET line == input'[Len(input')]
                   latest == LatestSchema(line.stream, Len(input))
                   row == flatten(line.record, "", flatten_sep)
               IN /\ validators[line.stream] = latest
                  /\ schemas[line.stream] =
                         flatten_schema(latest.props, "", flatten_schema_sep).items
                  /\ (exc' = "ValidationError") = ~validate(latest, VMap(line.record))
                  /\ (exc' = "none") = (validate(latest, VMap(line.record)) /\ row.ok)
                  /\ exc' = "none" =>
                         q' = Append(q, Msg(MessageType_RECORD, line.stream, VMap(row.d)))
      ]_vars

\* C22 witness: stream A got a first schema, stream B was registered and had a
\* record accepted, A got a second schema, and a record of A that only the second
\* schema accepts was accepted.
C22_Witness ==
    /\ Len(input) = 5 /\ exc = "none" /\ Len(q) = 5
    /\ input[1] = SchemaLine("A", SchemaOne)
    /\ input[3].type = "RECORD" /\ input[3].stream = "B"
    /\ input[4] = SchemaLine("A", SchemaTwo)
    /\ input[5].type = "RECORD" /\ input[5].stream = "A"
    /\ ~validate(SchemaOne.schema, VMap(input[5].record))

\* A table's columns are the given fields, and every column holds, row by row,
\* the row's value for the field, or null where the row has no such key.
ColumnsOf(part, fields) ==
    /\ DOMAIN part.columns = fields
    /\ DOMAIN part.table_schema.s = fields
    /\ \A f \in fields :
          /\ Len(part.columns[f]) = Len(part.rows)
          /\ \A i \in DOMAIN part.rows :
                \/ \E j \in DOMAIN part.rows[i] :
                      part.rows[i][j].k = f /\ part.columns[f][i] = part.rows[i][j].v
                \/ f \notin KeysOf(part.rows[i]) /\ part.columns[f][i] = VNull

\* No row of the batch holds None, so a null in a table stands for a lacking
\* key, and the values a key has in the rows of the batch are of one type.
PlainBatch(batch) ==
    /\ \A i \in DOMAIN batch : \A j \in DOMAIN batch[i] : batch[i][j].v # VNull
    /\ \A i1, i2 \in DOMAIN batch :
          \A j1 \in DOMAIN batch[i1], j2 \in DOMAIN batch[i2] :
              batch[i1][j1].k = batch[i2][j2].k => batch[i1][j1].v.t = batch[i2][j2].v.t

\* C23: in a write_file call that can open its files, on a batch without None
\* values whose keys each have values of one type, every part file opened is
\* written, with the union of the keys of all rows of the batch as its columns
\* and null where a row lacks one.
C23_BatchColumnSet ==
    ( /\ wf.op = "write_file" /\ wf.res.exc # "OSError"
      /\ PlainBatch(wf.res.flush.batch) ) =>
        LET flush == wf.res.flush
            fields == UNION {KeysOf(flush.batch[i]) : i \in DOMAIN flush.batch}
        IN \A k \in DOMAIN flush.parts :
              flush.parts[k].complete /\ ColumnsOf(flush.parts[k], fields)

====
